---------------------------- MODULE Spec2Model ----------------------------
(***************************************************************************)
(* Model of src/src/converter.py: main() and convert_oft_to_eml(), the     *)
(* conversion of an extracted Outlook template record into a               *)
(* multipart/related MIME document written to an .eml file.                *)
(*                                                                         *)
(* Text is modelled as sequences of Unicode code points and binary data as *)
(* sequences of octets, so that case folding, suffix tests, UTF-8, base64  *)
(* and RFC 2047 encoded-words are computed and not assumed.  Python values *)
(* are tagged records: [t |-> "None"], [t |-> "str", s |-> <<...>>],       *)
(* [t |-> "bytes", b |-> <<...>>], [t |-> "datetime", ...]; a missing      *)
(* attribute is [t |-> "absent"].                                          *)
(***************************************************************************)
EXTENDS Integers, Sequences, FiniteSets, TLC

(***************************************************************************)
(* Bounds of the explored input space.                                     *)
(***************************************************************************)
MaxAtts == 3
MaxSubjLen == 2

(***************************************************************************)
(* Python values.                                                          *)
(***************************************************************************)
None == [t |-> "None"]
Absent == [t |-> "absent"]
Str(s) == [t |-> "str", s |-> s]
Bytes(b) == [t |-> "bytes", b |-> b]

\* Python truth value of an object: None, "" and b"" are false; every
\* datetime is true.
Truthy(v) ==
    CASE v.t = "None" -> FALSE
      [] v.t = "absent" -> FALSE
      [] v.t = "str" -> v.s # <<>>
      [] v.t = "bytes" -> v.b # <<>>
      [] OTHER -> TRUE

\* a or b or c, as used for the display name.
Or3(a, b, c) == IF Truthy(a) THEN a ELSE IF Truthy(b) THEN b ELSE c

(***************************************************************************)
(* Text helpers.                                                           *)
(***************************************************************************)
IsAscii(s) == \A k \in 1..Len(s) : s[k] < 128

\* str.lower() on the code points that occur here: A-Z and the upper-case
\* letters of Latin-1 move up by 32.
LowerChar(c) ==
    IF (c >= 65 /\ c <= 90) \/ (c >= 192 /\ c <= 222 /\ c # 215) THEN c + 32 ELSE c

Lower(s) == [k \in 1..Len(s) |-> LowerChar(s[k])]

\* str.endswith(suffix)
EndsWith(s, suf) ==
    /\ Len(s) >= Len(suf)
    /\ SubSeq(s, Len(s) - Len(suf) + 1, Len(s)) = suf

\* s.split('.')[-1]: what follows the last dot, the whole of s without one.
LastDot(s) ==
    IF \E k \in 1..Len(s) : s[k] = 46
    THEN CHOOSE k \in 1..Len(s) : s[k] = 46 /\ \A j \in (k+1)..Len(s) : s[j] # 46
    ELSE 0

SplitLast(s) == SubSeq(s, LastDot(s) + 1, Len(s))

\* ".png", ".jpg", ".jpeg", ".gif", ".bmp"
ImageSuffixes ==
    { <<46,112,110,103>>, <<46,106,112,103>>, <<46,106,112,101,103>>,
      <<46,103,105,102>>, <<46,98,109,112>> }

\* "jpg", "jpeg", "attachment"
TxtJpg == <<106,112,103>>
TxtJpeg == <<106,112,101,103>>
TxtAttachment == <<97,116,116,97,99,104,109,101,110,116>>

(***************************************************************************)
(* UTF-8 and base64.                                                       *)
(***************************************************************************)
\* str.encode('utf-8') of one code point below U+10000.
Utf8Char(c) ==
    IF c < 128 THEN <<c>>
    ELSE IF c < 2048 THEN <<192 + (c \div 64), 128 + (c % 64)>>
    ELSE <<224 + (c \div 4096), 128 + ((c \div 64) % 64), 128 + (c % 64)>>

RECURSIVE Utf8(_)
Utf8(s) == IF s = <<>> THEN <<>> ELSE Utf8Char(Head(s)) \o Utf8(Tail(s))

\* The base64 alphabet: A-Z a-z 0-9 + /
B64Char(v) ==
    IF v < 26 THEN 65 + v
    ELSE IF v < 52 THEN 97 + (v - 26)
    ELSE IF v < 62 THEN 48 + (v - 52)
    ELSE IF v = 62 THEN 43 ELSE 47

\* binascii.b2a_base64 without the newline: three octets to four characters,
\* the last group padded with '='.
RECURSIVE B64Encode(_)
B64Encode(b) ==
    IF b = <<>> THEN <<>>
    ELSE IF Len(b) = 1 THEN
        << B64Char(b[1] \div 4), B64Char((b[1] % 4) * 16), 61, 61 >>
    ELSE IF Len(b) = 2 THEN
        << B64Char(b[1] \div 4), B64Char((b[1] % 4) * 16 + (b[2] \div 16)),
           B64Char((b[2] % 16) * 4), 61 >>
    ELSE
        << B64Char(b[1] \div 4), B64Char((b[1] % 4) * 16 + (b[2] \div 16)),
           B64Char((b[2] % 16) * 4 + (b[3] \div 64)), B64Char(b[3] % 64) >>
        \o B64Encode(SubSeq(b, 4, Len(b)))

\* base64.encodebytes: lines of 57 octets, each ended by a newline.
RECURSIVE EncodeBytes(_)
EncodeBytes(b) ==
    IF b = <<>> THEN <<>>
    ELSE IF Len(b) <= 57 THEN B64Encode(b) \o <<10>>
    ELSE B64Encode(SubSeq(b, 1, 57)) \o <<10>> \o EncodeBytes(SubSeq(b, 58, Len(b)))


(***************************************************************************)
(* RFC 2047 header encoding, as email.header.Header.encode performs it for *)
(* mime_msg.as_string() (compat32 policy, no line folding).                *)
(***************************************************************************)
\* Octets the "q" encoding leaves as they are: - ! * + / letters digits.
QSafe(o) ==
    \/ o \in {45, 33, 42, 43, 47}
    \/ (o >= 65 /\ o <= 90) \/ (o >= 97 /\ o <= 122) \/ (o >= 48 /\ o <= 57)

\* One upper-case hexadecimal digit.
HexDigit(n) == IF n < 10 THEN 48 + n ELSE 55 + n

\* quoprimime._QUOPRI_HEADER_MAP: safe octets unchanged, space as '_',
\* everything else as =XX.
QOctet(o) ==
    IF QSafe(o) THEN <<o>>
    ELSE IF o = 32 THEN <<95>>
    ELSE <<61, HexDigit(o \div 16), HexDigit(o % 16)>>

RECURSIVE QEncode(_)
QEncode(b) == IF b = <<>> THEN <<>> ELSE QOctet(Head(b)) \o QEncode(Tail(b))

\* base64mime.header_length and quoprimime.header_length
Len64(b) == 4 * ((Len(b) + 2) \div 3)
LenQp(b) == Len(QEncode(b))

\* "=?utf-8?b?", "=?utf-8?q?" and "?="
EwBase64 == <<61,63,117,116,102,45,56,63,98,63>>
EwQuopri == <<61,63,117,116,102,45,56,63,113,63>>
EwEnd == <<63,61>>

\* Charset('utf-8').header_encode: the shorter of base64 and "q".
EncodedWord(s) ==
    LET b == Utf8(s)
    IN IF Len64(b) < LenQp(b)
       THEN EwBase64 \o B64Encode(b) \o EwEnd
       ELSE EwQuopri \o QEncode(b) \o EwEnd

\* header._embedded_header, the pattern \n[^ \t]+: searched in the value.
EmbeddedHeader(s) ==
    \E k \in 1..Len(s) : \E j \in (k+2)..Len(s) :
        /\ s[k] = 10
        /\ s[j] = 58
        /\ \A m \in (k+1)..(j-1) : s[m] \notin {32, 9}

\* The text written after "Name: " for a header value: an ASCII value as it
\* is, any other value as one UTF-8 encoded-word.
HeaderEncode(s) == IF IsAscii(s) THEN s ELSE EncodedWord(s)

\* Header.encode raises HeaderParseError for such a value.
HeaderRaises(s) == EmbeddedHeader(HeaderEncode(s))

(***************************************************************************)
(* datetime: strftime('%a, %d %b %Y %H:%M:%S %z') and str().               *)
(* A datetime is [t |-> "datetime", year, month, day, hour, minute,        *)
(* second, aware, offset]; offset is the UTC offset in minutes, read only  *)
(* when aware.                                                             *)
(***************************************************************************)
D2(n) == <<48 + (n \div 10), 48 + (n % 10)>>
D4(n) == <<48 + (n \div 1000), 48 + ((n \div 100) % 10), 48 + ((n \div 10) % 10), 48 + (n % 10)>>

IsLeap(y) == (y % 4 = 0) /\ ((y % 100 # 0) \/ (y % 400 = 0))

DaysBeforeMonth(y, m) ==
    <<0, 31, 59, 90, 120, 151, 181, 212, 243, 273, 304, 334>>[m]
    + (IF m > 2 /\ IsLeap(y) THEN 1 ELSE 0)

\* date.toordinal(), and date.weekday() with Monday = 0.
ToOrdinal(d) ==
    LET y == d.year - 1
    IN y * 365 + (y \div 4) - (y \div 100) + (y \div 400)
       + DaysBeforeMonth(d.year, d.month) + d.day

Weekday(d) == (ToOrdinal(d) + 6) % 7

\* %a and %b in the C locale.
DayAbbr ==
    << <<77,111,110>>, <<84,117,101>>, <<87,101,100>>, <<84,104,117>>,
       <<70,114,105>>, <<83,97,116>>, <<83,117,110>> >>

MonthAbbr ==
    << <<74,97,110>>, <<70,101,98>>, <<77,97,114>>, <<65,112,114>>,
       <<77,97,121>>, <<74,117,110>>, <<74,117,108>>, <<65,117,103>>,
       <<83,101,112>>, <<79,99,116>>, <<78,111,118>>, <<68,101,99>> >>

Abs(n) == IF n < 0 THEN -n ELSE n
SignChar(n) == IF n < 0 THEN 45 ELSE 43

\* %z: empty for a naive datetime, else +HHMM or -HHMM.
FmtZ(d) ==
    IF d.aware
    THEN <<SignChar(d.offset)>> \o D2(Abs(d.offset) \div 60) \o D2(Abs(d.offset) % 60)
    ELSE <<>>

\* msg.date.strftime('%a, %d %b %Y %H:%M:%S %z')
Strftime(d) ==
    DayAbbr[Weekday(d) + 1] \o <<44, 32>> \o D2(d.day) \o <<32>>
    \o MonthAbbr[d.month] \o <<32>> \o D4(d.year) \o <<32>>
    \o D2(d.hour) \o <<58>> \o D2(d.minute) \o <<58>> \o D2(d.second)
    \o <<32>> \o FmtZ(d)

\* str(datetime): ISO date, a space, the time, and +HH:MM when aware.
IsoFormat(d) ==
    D4(d.year) \o <<45>> \o D2(d.month) \o <<45>> \o D2(d.day) \o <<32>>
    \o D2(d.hour) \o <<58>> \o D2(d.minute) \o <<58>> \o D2(d.second)
    \o (IF d.aware
        THEN <<SignChar(d.offset)>> \o D2(Abs(d.offset) \div 60) \o <<58>>
             \o D2(Abs(d.offset) % 60)
        ELSE <<>>)

\* str(v) for the values a date field takes.
PyStr(v) == IF v.t = "datetime" THEN IsoFormat(v) ELSE v.s

\* hasattr(v, 'strftime')
HasStrftime(v) == v.t = "datetime"


(***************************************************************************)
(* MIME objects.  A part is [maintype, subtype, headers, payload,          *)
(* children]; a header is [name, value, params], params being the keyword  *)
(* arguments given to add_header.                                          *)
(***************************************************************************)
Hdr(name, value) == [name |-> name, value |-> value, params |-> <<>>]
HdrP(name, value, params) == [name |-> name, value |-> value, params |-> params]

Part(maintype, subtype, headers, payload) ==
    [maintype |-> maintype, subtype |-> subtype, headers |-> headers,
     payload |-> payload, children |-> <<>>]

\* "related", "alternative", "plain", "html", "octet-stream", "base64",
\* "inline", 'attachment; filename="', '"', "<", ">"
TxtRelated == <<114,101,108,97,116,101,100>>
TxtAlternative == <<97,108,116,101,114,110,97,116,105,118,101>>
TxtPlain == <<112,108,97,105,110>>
TxtHtml == <<104,116,109,108>>
TxtOctetStream == <<111,99,116,101,116,45,115,116,114,101,97,109>>
TxtBase64 == <<98,97,115,101,54,52>>
TxtInline == <<105,110,108,105,110,101>>
TxtAttachmentFilename ==
    <<97,116,116,97,99,104,109,101,110,116,59,32,102,105,108,101,110,97,109,101,61,34>>
TxtQuote == <<34>>
TxtLt == <<60>>
TxtGt == <<62>>

\* MIMEMultipart(subtype): a container without children.
MIMEMultipart(subtype) == Part("multipart", subtype, <<>>, <<>>)

\* container.attach(part)
Attach(container, part) == [container EXCEPT !.children = Append(@, part)]

\* MIMEText(text, subtype, 'utf-8'): the text as UTF-8, base64 encoded.
MIMEText(text, subtype) ==
    Part("text", subtype,
         << HdrP("Content-Type", <<>>, << [k |-> "charset", v |-> "utf-8"] >>),
            Hdr("Content-Transfer-Encoding", TxtBase64) >>,
         EncodeBytes(Utf8(text)))

\* part.set_payload(data); encoders.encode_base64(part)
EncodeBase64(part, data) ==
    [part EXCEPT !.payload = EncodeBytes(data),
                 !.headers = Append(@, Hdr("Content-Transfer-Encoding", TxtBase64))]

(***************************************************************************)
(* convert_oft_to_eml, lines 51-61: the headers of the root.               *)
(***************************************************************************)
\* A variant that tests the field against None only.
SetIfNotNone(headers, name, field) ==
    IF field.t # "None" THEN Append(headers, Hdr(name, field.s)) ELSE headers

\* if field: mime_msg[name] = field
SetIf(headers, name, field) ==
    IF Truthy(field) THEN Append(headers, Hdr(name, field.s)) ELSE headers

\* A variant that formats only a datetime with a UTC offset.
DateValueAwareOnly(d) == IF HasStrftime(d) /\ d.aware THEN Strftime(d) ELSE PyStr(d)

\* line 61: strftime when the value has it, str() otherwise
DateValue(d) == IF HasStrftime(d) THEN Strftime(d) ELSE PyStr(d)

SetDate(headers, d) ==
    IF Truthy(d) THEN Append(headers, Hdr("Date", DateValue(d))) ELSE headers

SetHeaders(mime, m) ==
    [mime EXCEPT !.headers =
        SetDate(SetIf(SetIf(SetIf(SetIf(@, "From", m.sender), "To", m.to),
                            "Cc", m.cc), "Subject", m.subject), m.date)]

(***************************************************************************)
(* lines 63-76: the alternative container with the bodies.                 *)
(***************************************************************************)
AttachText(container, body, subtype) ==
    IF Truthy(body) THEN Attach(container, MIMEText(body.s, subtype)) ELSE container

\* A variant that attaches the HTML body first.
BuildAlternativeHtmlFirst(m) ==
    AttachText(AttachText(MIMEMultipart(TxtAlternative), m.htmlBody, TxtHtml),
               m.body, TxtPlain)

BuildAlternative(m) ==
    AttachText(AttachText(MIMEMultipart(TxtAlternative), m.body, TxtPlain),
               m.htmlBody, TxtHtml)

(***************************************************************************)
(* lines 82-110: one attachment.                                           *)
(***************************************************************************)
\* A variant that accepts every data that is not None.
HasDataNotNone(a) == a.data.t = "bytes"

\* hasattr(attachment, 'data') and attachment.data
HasData(a) == a.data.t # "absent" /\ Truthy(a.data)

\* attachment.longFilename or attachment.shortFilename or "attachment"
DisplayName(a) == Or3(a.longFilename, a.shortFilename, Str(TxtAttachment)).s

\* getattr(attachment, 'contentId', None)
ContentId(a) == IF a.contentId.t = "absent" THEN None ELSE a.contentId

\* A variant without lower().
HasImageSuffixCaseSensitive(filename) ==
    \E suf \in ImageSuffixes : EndsWith(filename, suf)

\* filename.lower().endswith(('.png', '.jpg', '.jpeg', '.gif', '.bmp'))
HasImageSuffix(filename) ==
    \E suf \in ImageSuffixes : EndsWith(Lower(filename), suf)

\* line 88
IsInline(a) == Truthy(ContentId(a)) /\ HasImageSuffix(DisplayName(a))

\* lines 90-92
ImageType(filename) ==
    LET image_type == Lower(SplitLast(filename))
    IN IF image_type = TxtJpg THEN TxtJpeg ELSE image_type

\* lines 94-100
InlinePart(a) ==
    LET filename == DisplayName(a)
        part == EncodeBase64(Part("image", ImageType(filename), <<>>, <<>>), a.data.b)
    IN [part EXCEPT !.headers =
          @ \o << Hdr("Content-ID", TxtLt \o ContentId(a).s \o TxtGt),
                  HdrP("Content-Disposition", TxtInline,
                       << [k |-> "filename", v |-> filename] >>) >>]

\* lines 104-107
RegularPart(a) ==
    LET filename == DisplayName(a)
        part == EncodeBase64(Part("application", TxtOctetStream, <<>>, <<>>), a.data.b)
    IN [part EXCEPT !.headers =
          Append(@, Hdr("Content-Disposition",
                        TxtAttachmentFilename \o filename \o TxtQuote))]

MakePart(a) == IF IsInline(a) THEN InlinePart(a) ELSE RegularPart(a)

\* A variant that places inline images right after the alternative
\* container, before the regular attachments.
AddAttachmentInlineFirst(mime, a) ==
    IF HasData(a)
    THEN IF IsInline(a)
         THEN [mime EXCEPT !.children = <<Head(@), MakePart(a)>> \o Tail(@)]
         ELSE Attach(mime, MakePart(a))
    ELSE mime

\* lines 82-110 for one attachment: the root afterwards.
AddAttachment(mime, a) == IF HasData(a) THEN Attach(mime, MakePart(a)) ELSE mime

(***************************************************************************)
(* line 115: mime_msg.as_string().  The headers of the root are written    *)
(* through Header.encode; the child parts are carried as built.            *)
(***************************************************************************)
\* A variant that writes header values as they are.
HeaderLineRaw(h) == [name |-> h.name, text |-> h.value]

HeaderLine(h) == [name |-> h.name, text |-> HeaderEncode(h.value)]

AsString(mime) ==
    [headers |-> [k \in 1..Len(mime.headers) |-> HeaderLine(mime.headers[k])],
     parts |-> mime.children]

AsStringRaises(mime) ==
    \E k \in 1..Len(mime.headers) : HeaderRaises(mime.headers[k].value)


(***************************************************************************)
(* Inputs: the records extract_msg.Message can yield, the command lines    *)
(* and the files present before the run.                                   *)
(***************************************************************************)
RECURSIVE SeqsUpTo(_, _)
SeqsUpTo(S, n) ==
    IF n = 0 THEN {<<>>}
    ELSE LET shorter == SeqsUpTo(S, n - 1)
         IN shorter \cup {Append(q, x) : q \in shorter, x \in S}

\* "a@x", "hello", "<p>e'</p>"
Addrs == {None, Str(<<>>), Str(<<97,64,120>>)}
Bodies == {None, Str(<<>>), Str(<<104,101,108,108,111>>)}
HtmlBodies == {None, Str(<<>>), Str(<<60,112,62,233,60,47,112,62>>)}

\* Subjects: every text of a, space, e-acute and the euro sign up to
\* MaxSubjLen, and "Cafe'", "Roundtable fu"r", "x\ny", "x\nFoo: bar".
SubjectChars == {97, 32, 233, 8364}
SampleSubjects ==
    { <<67,97,102,233>>,
      <<82,111,117,110,100,116,97,98,108,101,32,102,252,114>>,
      <<120,10,121>>,
      <<120,10,70,111,111,58,32,98,97,114>> }
Subjects ==
    {None} \cup {Str(q) : q \in SeqsUpTo(SubjectChars, MaxSubjLen) \cup SampleSubjects}

DateTime(y, mo, d, h, mi, sec, aware, offset) ==
    [t |-> "datetime", year |-> y, month |-> mo, day |-> d, hour |-> h,
     minute |-> mi, second |-> sec, aware |-> aware, offset |-> offset]

\* Dates: none, "", the string "1 Jan 2024 10:00", and datetimes with and
\* without a UTC offset.
Dates ==
    {None, Str(<<>>), Str(<<49,32,74,97,110,32,50,48,50,52,32,49,48,58,48,48>>)}
    \cup {DateTime(2024, 1, 1, 10, 0, 0, FALSE, 0),
          DateTime(2023, 12, 31, 23, 59, 5, FALSE, 0)}
    \cup {DateTime(2024, 1, 1, 10, 0, 0, TRUE, off) : off \in {0, 120, -330}}
    \cup {DateTime(2024, 2, 29, 7, 5, 9, TRUE, 60)}

Attachment(data, long, short, cid) ==
    [data |-> data, longFilename |-> long, shortFilename |-> short, contentId |-> cid]

PngData == Bytes(<<137,80,78,71>>)

\* "photo.JPG", "a.png", "b.JPEG", "c.gif", "d.Bmp", "r.pdf", "png", ".png",
\* "x.png.txt", "a.jpg.", "U".PNG", 'a"b.txt'
LongNames ==
    {None, Str(<<>>)} \cup
    { Str(n) : n \in
        { <<112,104,111,116,111,46,74,80,71>>, <<97,46,112,110,103>>,
          <<98,46,74,80,69,71>>, <<99,46,103,105,102>>, <<100,46,66,109,112>>,
          <<114,46,112,100,102>>, <<112,110,103>>, <<46,112,110,103>>,
          <<120,46,112,110,103,46,116,120,116>>, <<97,46,106,112,103,46>>,
          <<220,46,80,78,71>>, <<97,34,98,46,116,120,116>> } }

\* "S.GIF"
ShortNames == {None, Str(<<83,46,71,73,70>>)}
\* "img1"
ContentIds == {Absent, None, Str(<<>>), Str(<<105,109,103,49>>)}
Datas == {Absent, None, Bytes(<<>>), PngData, Bytes(<<255,216>>)}

AllAttachments ==
    { Attachment(d, l, sh, c) :
        d \in Datas, l \in LongNames, sh \in ShortNames, c \in ContentIds }

\* The attachments that sequences are built from: an inline image, a
\* regular file, an image without Content-ID, one without data, one with
\* empty data.
SomeAttachments ==
    { Attachment(PngData, Str(<<97,46,112,110,103>>), None, Str(<<105,109,103,49>>)),
      Attachment(Bytes(<<0>>), Str(<<114,46,112,100,102>>), None, None),
      Attachment(PngData, None, Str(<<83,46,71,73,70>>), Absent),
      Attachment(Absent, Str(<<99,46,103,105,102>>), None, Str(<<105,109,103,49>>)),
      Attachment(Bytes(<<>>), Str(<<114,46,112,100,102>>), None, None) }

Record(sender, to, cc, subject, date, body, htmlBody, attachments) ==
    [sender |-> sender, to |-> to, cc |-> cc, subject |-> subject, date |-> date,
     body |-> body, htmlBody |-> htmlBody, attachments |-> attachments]

BaseRecord ==
    Record(Str(<<97,64,120>>), Str(<<97,64,120>>), None, Str(<<67,97,102,233>>),
           DateTime(2024, 1, 1, 10, 0, 0, TRUE, 120),
           Str(<<104,101,108,108,111>>), None, <<>>)

Records ==
    \* presence of the header fields
    { Record(sd, to, cc, su, dt, BaseRecord.body, None, <<>>) :
        sd \in Addrs, to \in Addrs, cc \in Addrs,
        su \in {None, Str(<<>>), Str(<<97>>)},
        dt \in {None, BaseRecord.date} }
    \cup
    \* subjects and dates
    { [BaseRecord EXCEPT !.subject = su, !.date = dt] :
        su \in Subjects, dt \in Dates }
    \cup
    \* bodies
    { [BaseRecord EXCEPT !.body = b, !.htmlBody = h, !.attachments = at] :
        b \in Bodies, h \in HtmlBodies, at \in SeqsUpTo(SomeAttachments, 1) }
    \cup
    \* one attachment of every shape
    { [BaseRecord EXCEPT !.attachments = <<a>>] : a \in AllAttachments }
    \cup
    \* sequences of attachments
    { [BaseRecord EXCEPT !.attachments = at, !.htmlBody = h] :
        at \in SeqsUpTo(SomeAttachments, MaxAtts), h \in {None, BaseRecord.body} }

\* What extract_msg.Message(path) does with the input file: it raises, or
\* it yields a record.
Sources == {[ok |-> FALSE]} \cup {[ok |-> TRUE, rec |-> r] : r \in Records}

\* Paths: [dir, stem, suffix].
InPath == [dir |-> "templates", stem |-> "sample", suffix |-> ".oft"]
GivenOut == [dir |-> "out", stem |-> "result", suffix |-> ".eml"]

\* f"{Path(oft_file_path).stem}.eml"
DefaultOut(oft) == [dir |-> "", stem |-> oft.stem, suffix |-> ".eml"]

OutPaths == {GivenOut, DefaultOut(InPath)}

Argvs ==
    { << "converter.py" >>, << "converter.py", InPath >>,
      << "converter.py", InPath, GivenOut >> }

\* Files: absent, left by an earlier run, truncated, partly or fully written.
NoFile == [exists |-> FALSE]
OldFile == [exists |-> TRUE, state |-> "old"]
EmptyFile == [exists |-> TRUE, state |-> "empty"]
PartialFile(text) == [exists |-> TRUE, state |-> "partial", of |-> text]
FullFile(text) == [exists |-> TRUE, state |-> "full", text |-> text]

\* Exceptions.
Exc(type) == [t |-> "exc", type |-> type]


(***************************************************************************)
(* State.                                                                  *)
(***************************************************************************)
VARIABLES
    argv,            \* sys.argv
    inputExists,     \* os.path.exists(oft_file_path)
    source,          \* what the extractor does with the input file
    fs,              \* the files at the output paths
    fs0,             \* fs when the program started
    mainpc,          \* main: "start", "call", "done"
    exitcode,        \* exit code of the process, -1 while it runs
    pc,              \* convert_oft_to_eml: the line it is at
    eml_file_path,   \* its parameter, then its local
    msg,             \* the extracted record
    mime_msg,        \* the multipart/related root
    msg_alternative, \* the multipart/alternative container
    idx,             \* position of the attachment loop
    text,            \* the result of mime_msg.as_string()
    caught,          \* the exception caught by the except clause
    exc,             \* the exception that left convert_oft_to_eml
    result,          \* the value convert_oft_to_eml returned
    extractCalls     \* how often extract_msg.Message was called

env == <<argv, inputExists, source, fs0>>
doc == <<msg, mime_msg, msg_alternative, idx, text>>
outcome == <<caught, exc, result>>
vars == <<argv, inputExists, source, fs, fs0, mainpc, exitcode, pc, eml_file_path,
          msg, mime_msg, msg_alternative, idx, text, caught, exc, result,
          extractCalls>>

Init ==
    /\ argv \in Argvs
    /\ inputExists \in BOOLEAN
    /\ source \in Sources
    /\ fs \in [OutPaths -> {NoFile, OldFile}]
    /\ fs0 = fs
    /\ mainpc = "start"
    /\ exitcode = -1
    /\ pc = "idle"
    /\ eml_file_path = None
    /\ msg = None
    /\ mime_msg = None
    /\ msg_alternative = None
    /\ idx = 0
    /\ text = None
    /\ caught = None
    /\ exc = None
    /\ result = None
    /\ extractCalls = 0

(***************************************************************************)
(* main, lines 137-153.                                                    *)
(***************************************************************************)
\* lines 140-143: no input argument, usage and exit code 1
MainUsage ==
    /\ mainpc = "start"
    /\ Len(argv) < 2
    /\ mainpc' = "done"
    /\ exitcode' = 1
    /\ UNCHANGED <<env, fs, pc, eml_file_path, doc, outcome, extractCalls>>

\* lines 145-149: the call of convert_oft_to_eml(oft_file, eml_file)
MainCall ==
    /\ mainpc = "start"
    /\ Len(argv) >= 2
    /\ mainpc' = "call"
    /\ pc' = "validate"
    /\ eml_file_path' = IF Len(argv) > 2 THEN argv[3] ELSE None
    /\ UNCHANGED <<env, fs, exitcode, doc, outcome, extractCalls>>

\* line 150: convert_oft_to_eml returned, main ends
MainSuccess ==
    /\ mainpc = "call"
    /\ pc = "returned"
    /\ mainpc' = "done"
    /\ exitcode' = 0
    /\ UNCHANGED <<env, fs, pc, eml_file_path, doc, outcome, extractCalls>>

\* lines 151-153: convert_oft_to_eml raised, exit code 1
MainError ==
    /\ mainpc = "call"
    /\ pc = "raised"
    /\ mainpc' = "done"
    /\ exitcode' = 1
    /\ UNCHANGED <<env, fs, pc, eml_file_path, doc, outcome, extractCalls>>

(***************************************************************************)
(* convert_oft_to_eml, lines 22-134.                                       *)
(***************************************************************************)
\* A variant without the test of the input path.
ValidateSkip ==
    /\ pc = "validate"
    /\ pc' = "default"
    /\ UNCHANGED <<env, fs, mainpc, exitcode, eml_file_path, doc, outcome,
                   extractCalls>>

\* lines 35-36
Validate ==
    /\ pc = "validate"
    /\ IF ~inputExists
       THEN /\ exc' = Exc("FileNotFoundError")
            /\ pc' = "raised"
       ELSE /\ pc' = "default"
            /\ UNCHANGED exc
    /\ UNCHANGED <<env, fs, mainpc, exitcode, eml_file_path, doc, caught, result,
                   extractCalls>>

\* lines 39-41
DefaultOutput ==
    /\ pc = "default"
    /\ eml_file_path' = IF eml_file_path = None THEN DefaultOut(argv[2])
                        ELSE eml_file_path
    /\ pc' = "extract"
    /\ UNCHANGED <<env, fs, mainpc, exitcode, doc, outcome, extractCalls>>

\* lines 46-49: the extractor raises, or yields the record
Extract ==
    /\ pc = "extract"
    /\ extractCalls' = extractCalls + 1
    /\ IF source.ok
       THEN /\ msg' = source.rec
            /\ mime_msg' = MIMEMultipart(TxtRelated)
            /\ pc' = "headers"
            /\ UNCHANGED caught
       ELSE /\ caught' = Exc("ExtractError")
            /\ pc' = "except"
            /\ UNCHANGED <<msg, mime_msg>>
    /\ UNCHANGED <<env, fs, mainpc, exitcode, eml_file_path, msg_alternative, idx,
                   text, exc, result>>

\* lines 51-61
Headers ==
    /\ pc = "headers"
    /\ mime_msg' = SetHeaders(mime_msg, msg)
    /\ pc' = "body"
    /\ UNCHANGED <<env, fs, mainpc, exitcode, eml_file_path, msg, msg_alternative,
                   idx, text, outcome, extractCalls>>

\* lines 63-76
Body ==
    /\ pc = "body"
    /\ msg_alternative' = BuildAlternative(msg)
    /\ mime_msg' = Attach(mime_msg, BuildAlternative(msg))
    /\ idx' = 1
    /\ pc' = "attachments"
    /\ UNCHANGED <<env, fs, mainpc, exitcode, eml_file_path, msg, text, outcome,
                   extractCalls>>

\* lines 79-110: one turn of the loop over msg.attachments
NextAttachment ==
    /\ pc = "attachments"
    /\ idx <= Len(msg.attachments)
    /\ mime_msg' = AddAttachment(mime_msg, msg.attachments[idx])
    /\ idx' = idx + 1
    /\ UNCHANGED <<env, fs, mainpc, exitcode, pc, eml_file_path, msg,
                   msg_alternative, text, outcome, extractCalls>>

\* line 79 with no attachments, or the end of the loop
AttachmentsDone ==
    /\ pc = "attachments"
    /\ idx > Len(msg.attachments)
    /\ pc' = "open"
    /\ UNCHANGED <<env, fs, mainpc, exitcode, eml_file_path, doc, outcome,
                   extractCalls>>

\* line 114: open(eml_file_path, 'w') creates or truncates the file
OpenOk ==
    /\ pc = "open"
    /\ fs' = [fs EXCEPT ![eml_file_path] = EmptyFile]
    /\ pc' = "serialize"
    /\ UNCHANGED <<env, mainpc, exitcode, eml_file_path, doc, outcome, extractCalls>>

\* line 114: open fails (no such directory, no permission)
OpenFails ==
    /\ pc = "open"
    /\ caught' = Exc("OSError")
    /\ pc' = "except"
    /\ UNCHANGED <<env, fs, mainpc, exitcode, eml_file_path, doc, exc, result,
                   extractCalls>>

\* line 115: mime_msg.as_string(), evaluated with the file open
Serialize ==
    /\ pc = "serialize"
    /\ IF AsStringRaises(mime_msg)
       THEN /\ caught' = Exc("HeaderParseError")
            /\ pc' = "except"
            /\ UNCHANGED text
       ELSE /\ text' = AsString(mime_msg)
            /\ pc' = "write"
            /\ UNCHANGED caught
    /\ UNCHANGED <<env, fs, mainpc, exitcode, eml_file_path, msg, mime_msg,
                   msg_alternative, idx, exc, result, extractCalls>>

\* line 115: f.write(...) and the end of the with block
WriteOk ==
    /\ pc = "write"
    /\ fs' = [fs EXCEPT ![eml_file_path] = FullFile(text)]
    /\ pc' = "info"
    /\ UNCHANGED <<env, mainpc, exitcode, eml_file_path, doc, outcome, extractCalls>>

\* line 115: the write fails part way (device full, I/O error)
WriteFails ==
    /\ pc = "write"
    /\ fs' = [fs EXCEPT ![eml_file_path] = PartialFile(text)]
    /\ caught' = Exc("OSError")
    /\ pc' = "except"
    /\ UNCHANGED <<env, mainpc, exitcode, eml_file_path, doc, exc, result,
                   extractCalls>>

\* lines 117-130: the messages, then return eml_file_path
Return ==
    /\ pc = "info"
    /\ result' = eml_file_path
    /\ pc' = "returned"
    /\ UNCHANGED <<env, fs, mainpc, exitcode, eml_file_path, doc, caught, exc,
                   extractCalls>>

\* A variant that prints the error and returns the path.
ReraiseSwallow ==
    /\ pc = "except"
    /\ result' = eml_file_path
    /\ pc' = "returned"
    /\ UNCHANGED <<env, fs, mainpc, exitcode, eml_file_path, doc, caught, exc,
                   extractCalls>>

\* lines 132-134: print the error and raise it again
Reraise ==
    /\ pc = "except"
    /\ exc' = caught
    /\ pc' = "raised"
    /\ UNCHANGED <<env, fs, mainpc, exitcode, eml_file_path, doc, caught, result,
                   extractCalls>>

Next ==
    \/ MainUsage
    \/ MainCall
    \/ MainSuccess
    \/ MainError
    \/ Validate
    \/ DefaultOutput
    \/ Extract
    \/ Headers
    \/ Body
    \/ NextAttachment
    \/ AttachmentsDone
    \/ OpenOk
    \/ OpenFails
    \/ Serialize
    \/ WriteOk
    \/ WriteFails
    \/ Return
    \/ Reraise

Spec == Init /\ [][Next]_vars


(***************************************************************************)
(* Vocabulary of the properties.  These definitions read the inputs and    *)
(* the built document on their own terms; they do not use the operators    *)
(* of the conversion.                                                      *)
(***************************************************************************)
\* A field that is present and not empty.
Given(v) ==
    \/ v.t = "str" /\ Len(v.s) > 0
    \/ v.t = "bytes" /\ Len(v.b) > 0
    \/ v.t = "datetime"

Contains(s, sub) ==
    \E k \in 1..(Len(s) - Len(sub) + 1) : SubSeq(s, k, k + Len(sub) - 1) = sub

Named(headers, name) == SelectSeq(headers, LAMBDA h : h.name = name)

\* Decoding of base64 text, for reading payloads back.
B64Val(c) ==
    IF c >= 65 /\ c <= 90 THEN c - 65
    ELSE IF c >= 97 /\ c <= 122 THEN c - 71
    ELSE IF c >= 48 /\ c <= 57 THEN c + 4
    ELSE IF c = 43 THEN 62 ELSE 63

RECURSIVE B64DecodeGroups(_)
B64DecodeGroups(c) ==
    IF Len(c) < 4 THEN <<>>
    ELSE LET v1 == B64Val(c[1])
             v2 == B64Val(c[2])
             v3 == B64Val(c[3])
             v4 == B64Val(c[4])
             first == v1 * 4 + (v2 \div 16)
             second == (v2 % 16) * 16 + (v3 \div 4)
             third == (v3 % 4) * 64 + v4
         IN (IF c[3] = 61 THEN <<first>>
             ELSE IF c[4] = 61 THEN <<first, second>>
             ELSE <<first, second, third>>)
            \o B64DecodeGroups(SubSeq(c, 5, Len(c)))

B64Decode(c) == B64DecodeGroups(SelectSeq(c, LAMBDA x : x # 10))

\* The display name: longFilename, else shortFilename, else "attachment".
NameOf(a) ==
    IF Given(a.longFilename) THEN a.longFilename.s
    ELSE IF Given(a.shortFilename) THEN a.shortFilename.s
    ELSE <<97,116,116,97,99,104,109,101,110,116>>

\* The lower-cased extension of a name: the text after its last dot, and
\* nothing for a name without a dot.
HasDot(n) == \E k \in 1..Len(n) : n[k] = 46
ExtensionOf(n) ==
    LET dots == {k \in 1..Len(n) : n[k] = 46}
        last == CHOOSE k \in dots : \A j \in dots : j <= k
        tail == SubSeq(n, last + 1, Len(n))
    IN [k \in 1..Len(tail) |->
          IF tail[k] >= 65 /\ tail[k] <= 90 THEN tail[k] + 32 ELSE tail[k]]

\* png, jpg, jpeg, gif, bmp
ImageExtensions ==
    { <<112,110,103>>, <<106,112,103>>, <<106,112,101,103>>, <<103,105,102>>,
      <<98,109,112>> }

\* The classification rule: a Content-ID and an image extension.
InlineByRule(a) ==
    /\ Given(a.contentId)
    /\ HasDot(NameOf(a))
    /\ ExtensionOf(NameOf(a)) \in ImageExtensions

HasPayload(a) == Given(a.data)

\* The file name a part carries in its Content-Disposition.
FilenameOf(p) ==
    LET cd == Named(p.headers, "Content-Disposition")[1]
    IN IF cd.params # <<>> THEN cd.params[1].v
       ELSE SubSeq(cd.value, 23, Len(cd.value) - 1)

\* What identifies the part of an attachment: its data and its name.
PartSignature(p) == <<B64Decode(p.payload), FilenameOf(p)>>
AttachmentSignature(a) == <<a.data.b, NameOf(a)>>

\* Stages of convert_oft_to_eml.
AfterHeaders == pc \in {"body", "attachments", "open", "serialize", "write", "info", "returned"}
AfterBody == pc \in {"attachments", "open", "serialize", "write", "info", "returned"}
AfterLoop == pc \in {"open", "serialize", "write", "info", "returned"}


(***************************************************************************)
(* Properties.                                                             *)
(***************************************************************************)
Attachments == msg.attachments
Children == mime_msg.children
Processed == AfterLoop \/ (pc = "attachments" /\ idx > Len(Attachments))

CountParts(sig) ==
    Cardinality({k \in 2..Len(Children) : PartSignature(Children[k]) = sig})
CountAttachments(sig) ==
    Cardinality({k \in 1..Len(Attachments) :
                    HasPayload(Attachments[k]) /\ AttachmentSignature(Attachments[k]) = sig})

\* C1: once the attachment sequence is processed, every attachment whose
\* data is present and non-empty has exactly one part among the children of
\* the root, an attachment without data has none and raises no error, and
\* the root has 1 + (number of attachments with data) children.
C1_OnePartPerAttachment ==
    /\ pc = "attachments" =>
          /\ caught = None /\ exc = None
          /\ Len(Children) =
                1 + Cardinality({k \in 1..(idx - 1) : HasPayload(Attachments[k])})
    /\ Processed =>
          /\ Len(Children) =
                1 + Cardinality({k \in 1..Len(Attachments) : HasPayload(Attachments[k])})
          /\ \A k \in 1..Len(Attachments) :
                HasPayload(Attachments[k]) =>
                    CountParts(AttachmentSignature(Attachments[k]))
                      = CountAttachments(AttachmentSignature(Attachments[k]))
          /\ \A k \in 2..Len(Children) :
                CountAttachments(PartSignature(Children[k])) >= 1

\* A run with three attachments of which exactly one has data: two parts.
C1_Witness ==
    /\ AfterLoop
    /\ Len(Attachments) = 3
    /\ Cardinality({k \in 1..3 : HasPayload(Attachments[k])}) = 1
    /\ \E k \in 1..3 : Attachments[k].data = Bytes(<<>>)
    /\ \E k \in 1..3 : Attachments[k].data = Absent
    /\ Len(Children) = 2

\* C2: the attachment parts under the root are in the order of their
\* attachments in the input, whatever the mix of inline and regular parts;
\* an attachment without data leaves the order of the others unchanged.
C2_OrderPreserved ==
    Processed =>
        LET withData == SelectSeq(Attachments, HasPayload)
        IN [k \in 1..(Len(Children) - 1) |-> PartSignature(Children[k + 1])]
             = [k \in 1..Len(withData) |-> AttachmentSignature(withData[k])]

\* A regular attachment, one without data, then an inline image.
C2_Witness ==
    /\ AfterLoop
    /\ Len(Attachments) = 3
    /\ HasPayload(Attachments[1]) /\ ~InlineByRule(Attachments[1])
    /\ ~HasPayload(Attachments[2])
    /\ HasPayload(Attachments[3]) /\ InlineByRule(Attachments[3])
    /\ Len(Children) = 3
    /\ Children[2].maintype = "application"
    /\ Children[3].maintype = "image"

TypesOf(parts) == [k \in 1..Len(parts) |-> <<parts[k].maintype, parts[k].subtype>>]

ExpectedBodies(m) ==
    (IF Given(m.body) THEN << <<"text", <<112,108,97,105,110>> >> >> ELSE <<>>)
    \o (IF Given(m.htmlBody) THEN << <<"text", <<104,116,109,108>> >> >> ELSE <<>>)

AlternativeFirst(parts, m) ==
    /\ Len(parts) >= 1
    /\ parts[1].maintype = "multipart"
    /\ parts[1].subtype = <<97,108,116,101,114,110,97,116,105,118,101>>
    /\ TypesOf(parts[1].children) = ExpectedBodies(m)
    /\ \A k \in 2..Len(parts) : parts[k].maintype \in {"image", "application"}

\* C3: the first child of the root is a multipart/alternative container,
\* also without any body (then with no children), before every attachment
\* part; its children are a text/plain part iff the plain body is given,
\* then a text/html part iff the HTML body is given.
C3_AlternativeFirst ==
    /\ AfterBody => AlternativeFirst(Children, msg)
    /\ \A path \in OutPaths :
          (fs[path].exists /\ fs[path].state = "full") =>
              AlternativeFirst(fs[path].text.parts, msg)

\* A written document of a record without bodies and with an attachment.
C3_Witness ==
    /\ pc = "returned"
    /\ ~Given(msg.body) /\ ~Given(msg.htmlBody)
    /\ fs[eml_file_path] = FullFile(text)
    /\ text.parts[1].children = <<>>
    /\ Len(text.parts) = 2

HasHeader(p, name, value) ==
    /\ Len(Named(p.headers, name)) = 1
    /\ Named(p.headers, name)[1].value = value

\* C4: for an attachment with data, the part is an inline image exactly
\* when the Content-ID is given and the lower-cased extension of the display
\* name is png, jpg, jpeg, gif or bmp; an inline part is image/<ext> (jpg as
\* jpeg) with Content-ID <id> and Content-Disposition inline, any other part
\* is application/octet-stream with Content-Disposition attachment and no
\* Content-ID; both are base64 encoded and carry the display name.
C4_Classification ==
    (pc = "attachments" /\ idx >= 2 /\ HasPayload(Attachments[idx - 1])) =>
        LET a == Attachments[idx - 1]
            p == Children[Len(Children)]
            name == NameOf(a)
            ext == ExtensionOf(name)
        IN /\ HasHeader(p, "Content-Transfer-Encoding", <<98,97,115,101,54,52>>)
           /\ B64Decode(p.payload) = a.data.b
           /\ IsAscii(p.payload)
           /\ IF InlineByRule(a)
              THEN /\ p.maintype = "image"
                   /\ p.subtype = IF ext = <<106,112,103>> THEN <<106,112,101,103>> ELSE ext
                   /\ HasHeader(p, "Content-ID", <<60>> \o a.contentId.s \o <<62>>)
                   /\ HasHeader(p, "Content-Disposition", <<105,110,108,105,110,101>>)
                   /\ Named(p.headers, "Content-Disposition")[1].params
                        = << [k |-> "filename", v |-> name] >>
              ELSE /\ p.maintype = "application"
                   /\ p.subtype = <<111,99,116,101,116,45,115,116,114,101,97,109>>
                   /\ Named(p.headers, "Content-ID") = <<>>
                   /\ HasHeader(p, "Content-Disposition",
                        <<97,116,116,97,99,104,109,101,110,116,59,32,102,105,108,101,
                          110,97,109,101,61,34>> \o name \o <<34>>)

\* photo.JPG with Content-ID img1 has become an image/jpeg part.
C4_Witness ==
    /\ pc = "attachments" /\ idx = 2
    /\ Attachments[1].longFilename = Str(<<112,104,111,116,111,46,74,80,71>>)
    /\ Attachments[1].contentId = Str(<<105,109,103,49>>)
    /\ HasPayload(Attachments[1])
    /\ Children[2].maintype = "image"
    /\ Children[2].subtype = <<106,112,101,103>>

FieldOf(m, name) ==
    CASE name = "From" -> m.sender
      [] name = "To" -> m.to
      [] name = "Cc" -> m.cc
      [] name = "Subject" -> m.subject
      [] name = "Date" -> m.date

OptionalHeaders == {"From", "To", "Cc", "Subject", "Date"}

\* C5: each of From, To, Cc, Subject and Date is in the output exactly once
\* when its field is present and non-empty, and not at all otherwise; no
\* header has an empty value.
C5_HeadersIffGiven ==
    /\ AfterHeaders =>
          /\ \A name \in OptionalHeaders :
                Len(Named(mime_msg.headers, name))
                  = IF Given(FieldOf(msg, name)) THEN 1 ELSE 0
          /\ \A k \in 1..Len(mime_msg.headers) : mime_msg.headers[k].value # <<>>
    /\ text # None =>
          /\ \A name \in OptionalHeaders :
                Len(Named(text.headers, name))
                  = IF Given(FieldOf(msg, name)) THEN 1 ELSE 0
          /\ \A k \in 1..Len(text.headers) : text.headers[k].text # <<>>

\* A written document of a record with an empty sender, no Cc and no
\* subject, but with To and Date.
C5_Witness ==
    /\ pc = "returned"
    /\ msg.sender = Str(<<>>) /\ msg.cc = None /\ msg.subject = None
    /\ Given(msg.to) /\ Given(msg.date)
    /\ [k \in 1..Len(text.headers) |-> text.headers[k].name] = <<"To", "Date">>

\* C6: a subject with a non-ASCII code point is serialized as an ASCII-only
\* Subject line that contains a UTF-8 encoded-word (=?utf-8?); an
\* ASCII-only subject is written unchanged, without encoded-word.
C6_SubjectEncoding ==
    (text # None /\ Given(msg.subject)) =>
        LET line == Named(text.headers, "Subject")[1].text
            subject == msg.subject.s
        IN IF \E k \in 1..Len(subject) : subject[k] >= 128
           THEN /\ \A k \in 1..Len(line) : line[k] < 128
                /\ Contains(line, <<61,63,117,116,102,45,56,63>>)
                /\ SubSeq(line, Len(line) - 1, Len(line)) = <<63,61>>
           ELSE /\ line = subject
                /\ ~Contains(line, <<61,63,117,116,102,45,56,63>>)

\* "Cafe'" has been written as =?utf-8?b?Q2Fmw6k=?=
C6_Witness ==
    /\ pc = "returned"
    /\ msg.subject = Str(<<67,97,102,233>>)
    /\ Named(fs[eml_file_path].text.headers, "Subject")[1].text
         = <<61,63,117,116,102,45,56,63,98,63,81,50,70,109,119,54,107,61,63,61>>

DateHeader == Named(mime_msg.headers, "Date")[1].value

\* C7 as stated: a date with a UTC offset gets the formatted rendering, a
\* date without one falls back to str() of the value.
C7_NaiveFallsBackToStr ==
    (AfterHeaders /\ msg.date.t = "datetime") =>
        IF msg.date.aware
        THEN DateHeader = Strftime(msg.date)
        ELSE DateHeader = IsoFormat(msg.date)

\* C7, amended: building the Date header never raises; every datetime,
\* with or without a UTC offset, gets the strftime rendering, whose zone is
\* empty without an offset; only a value that has no strftime (a string)
\* is rendered by str().
C7_DateHeader ==
    /\ pc = "body" => caught = None /\ exc = None
    /\ (AfterHeaders /\ Given(msg.date)) =>
          /\ Len(Named(mime_msg.headers, "Date")) = 1
          /\ msg.date.t = "datetime" =>
                /\ DateHeader = Strftime(msg.date)
                /\ DateHeader # IsoFormat(msg.date)
                /\ msg.date.aware =>
                      /\ Len(DateHeader) = 31
                      /\ DateHeader[27] \in {43, 45}
                /\ ~msg.date.aware =>
                      /\ Len(DateHeader) = 26
                      /\ DateHeader[26] = 32
          /\ msg.date.t = "str" => DateHeader = msg.date.s

\* A datetime without offset has been formatted, with an empty zone:
\* "Mon, 01 Jan 2024 10:00:00 ".
C7_Witness ==
    /\ pc = "body"
    /\ msg.date = DateTime(2024, 1, 1, 10, 0, 0, FALSE, 0)
    /\ DateHeader = <<77,111,110,44,32,48,49,32,74,97,110,32,50,48,50,52,32,
                      49,48,58,48,48,58,48,48,32>>

\* C8: without the input file convert_oft_to_eml raises FileNotFoundError
\* as its first step: the extractor is not called, no document is built and
\* no file at an output path is created or changed.
C8_MissingInput ==
    (~inputExists /\ pc \notin {"idle", "validate"}) =>
        /\ pc = "raised"
        /\ exc = Exc("FileNotFoundError")
        /\ caught = None
        /\ result = None
        /\ extractCalls = 0
        /\ msg = None /\ mime_msg = None /\ msg_alternative = None /\ text = None
        /\ fs = fs0

\* The input is missing, an older output file exists, main has exited.
C8_Witness ==
    /\ ~inputExists
    /\ pc = "raised"
    /\ mainpc = "done"
    /\ exitcode = 1
    /\ fs[GivenOut] = OldFile

\* C9: convert_oft_to_eml returns the output path only after the whole
\* document is written to it; an error of extraction, assembly,
\* serialization or writing is raised again unchanged and no path is
\* returned; main exits with 0 exactly when it returned, and with 1 when it
\* raised or when no input argument was given.
C9_SuccessAfterWrite ==
    /\ pc = "returned" =>
          /\ caught = None /\ exc = None
          /\ result = eml_file_path
          /\ Len(argv) > 2 => result = argv[3]
          /\ text = AsString(mime_msg)
          /\ fs[result] = FullFile(text)
    /\ caught # None => result = None /\ pc \in {"except", "raised"}
    /\ pc = "raised" =>
          /\ result = None
          /\ exc # None
          /\ caught # None => exc = caught
    /\ result # None => pc = "returned"
    /\ mainpc = "done" =>
          /\ exitcode \in {0, 1}
          /\ exitcode = 0 <=> pc = "returned"
          /\ exitcode = 1 <=> (pc = "raised" \/ Len(argv) < 2)
    /\ mainpc # "done" => exitcode = -1

\* main has exited with 0 and the document is in the given file.
C9_Witness ==
    /\ mainpc = "done"
    /\ exitcode = 0
    /\ result = GivenOut
    /\ fs[GivenOut] = FullFile(text)
    /\ fs0[GivenOut] = OldFile

\* C10: whenever convert_oft_to_eml has raised, the file at the output path
\* is as it was before the call.
C10_NoPartialOutput == pc = "raised" => fs = fs0

=============================================================================
